---- MODULE Spec2Model ----
(***************************************************************************)
(* State-machine model of the SeasonalWishlist Soroban contract            *)
(* (contracts/santa_whishlist/src/lib.rs).                                 *)
(*                                                                         *)
(* One action per contract entry point; every invocation is one atomic     *)
(* transaction of the host ledger: a trap (panic_with_error!, a failed     *)
(* require_auth, a failed expect, a host storage error) rolls back every   *)
(* write and every event of the invocation, so a failing invocation only   *)
(* records its outcome in `call`.                                          *)
(***************************************************************************)
EXTENDS Integers, Sequences, FiniteSets, TLC

\* ------------------------------------------------------------------ bounds
MaxWishes == 2        \* wishes stored in total, over all users
MaxLedgers == 1       \* AdvanceLedger steps explored
MinPersistentTTL == 1 \* host setting: lifetime of a freshly created entry, in LedgerChunk ledgers

\* ------------------------------------------------------- program constants
DEFAULT_DEADLINE == 1766620800   \* unwrap_or(1_766_620_800)
TTL_THRESHOLD == 2000            \* extend_ttl(.., 2_000, ..)
TTL_EXTEND_TO == 5000            \* extend_ttl(.., .., 5_000)
FIRST_ID == 1                    \* unwrap_or(1)
\* ledgers that pass in one AdvanceLedger step: half the extension threshold,
\* so that an entry is seen above, at and below the threshold
LedgerChunk == TTL_THRESHOLD \div 2

\* ------------------------------------------------------------ input sets
Addresses == {"santa", "kid"}
Texts == {"bike"}
NaughtyLists == {<<>>, <<"kid">>}
Deadlines == {1, 2}
WishIds == 1..MaxWishes
\* The sets of addresses that may have authorized an invocation.
Authorizations == {{}} \cup {{a} : a \in Addresses}

RECURSIVE SumLen(_, _)
SumLen(store, users) ==
  IF users = {} THEN 0
  ELSE LET u == CHOOSE x \in users : TRUE
       IN (IF <<"Wishes", u>> \in DOMAIN store THEN Len(store[<<"Wishes", u>>]) ELSE 0)
          + SumLen(store, users \ {u})

VARIABLES
  instance,      \* instance storage: DataKey::{Admin, ChristmasDeadline, NaughtyList} -> value
  persistent,    \* persistent storage: DataKey::{Wishes(a), NextId(a)} -> value
  instance_ttl,  \* ledgers the contract instance stays live
  ttl,           \* per persistent entry: ledgers it stays live (0: archived)
  ledger,        \* [timestamp, sequence] of the current ledger
  events,        \* events published by the last invocation
  log,           \* every event published so far, as a set
  call           \* the last invocation and its outcome

vars == <<instance, persistent, instance_ttl, ttl, ledger, events, log, call>>

\* ------------------------------------------------------------ DataKey
Wishes(user) == <<"Wishes", user>>

\* Faulty variant: one counter shared by all users.
NextId_shared(user) == <<"NextId", "all">>

NextId(user) == <<"NextId", user>>

\* ------------------------------------------------------------ storage
\* storage().get(key).unwrap_or(default)
StorageGet(store, key, default) ==
  IF key \in DOMAIN store THEN store[key] ELSE default

\* storage().set(key, value)
StorageSet(store, key, value) ==
  [k \in (DOMAIN store) \cup {key} |-> IF k = key THEN value ELSE store[k]]

\* Lifetime of the entry after storage().set: a new entry gets the host's
\* minimum lifetime, an existing entry keeps its own.
TtlOnSet(t, key) ==
  IF key \in DOMAIN t THEN t ELSE StorageSet(t, key, MinPersistentTTL * LedgerChunk)

\* extend_ttl(threshold, extend_to) on one lifetime
ExtendTtl(remaining, threshold, extend_to) ==
  IF remaining <= threshold /\ extend_to > remaining THEN extend_to ELSE remaining

\* bump_persistent_ttl: the host fails extend_ttl on a key that has no entry.
bump_persistent_ttl_ok(store, key) == key \in DOMAIN store

bump_persistent_ttl(t, key) ==
  [t EXCEPT ![key] = ExtendTtl(t[key], TTL_THRESHOLD, TTL_EXTEND_TO)]

bump_instance_ttl(remaining) == ExtendTtl(remaining, TTL_THRESHOLD, TTL_EXTEND_TO)

\* ------------------------------------------------------------ helpers
\* Faulty variant: the authorization is not verified.
require_auth_skipped(address, auth) == TRUE

\* Address::require_auth
require_auth(address, auth) == address \in auth

\* Vec::contains
Contains(vec, x) == \E i \in 1..Len(vec) : vec[i] = x

\* The deadline ensure_not_christmas compares the ledger time with.
ChristmasDeadline == StorageGet(instance, "ChristmasDeadline", DEFAULT_DEADLINE)

\* Faulty variant: a missing deadline entry counts as a deadline that has passed.
ensure_not_christmas_no_default ==
  ~(ledger.timestamp >= StorageGet(instance, "ChristmasDeadline", 0))

\* Faulty variant: the stored deadline is ignored, the built-in one is used.
ensure_not_christmas_builtin ==
  ~(ledger.timestamp >= DEFAULT_DEADLINE)

\* Faulty variant: the deadline instant itself is still accepted (> for >=).
ensure_not_christmas_strict ==
  ~(ledger.timestamp > ChristmasDeadline)

\* TRUE when ensure_not_christmas lets the invocation continue.
ensure_not_christmas ==
  LET current_time == ledger.timestamp
      christmas_deadline == StorageGet(instance, "ChristmasDeadline", DEFAULT_DEADLINE)
  IN ~(current_time >= christmas_deadline)

\* Faulty variant: the denylist is not consulted.
check_naughty_list_skipped(user) == TRUE

\* TRUE when check_naughty_list lets the invocation continue.
check_naughty_list(user) ==
  LET naughty_list == StorageGet(instance, "NaughtyList", <<>>)
  IN ~Contains(naughty_list, user)

\* Faulty variant: the counter is stored back without the increment.
IncrementId_stuck(current_id) == current_id

\* Faulty variant: the counter is incremented twice.
IncrementId_twice(current_id) == current_id + 2

\* let current_id = next_id; next_id += 1;
IncrementId(current_id) == current_id + 1

\* Faulty variant: the new wish replaces the stored sequence.
push_back_replacing(vec, x) == <<x>>

\* Vec::push_back
push_back(vec, x) == Append(vec, x)

\* Faulty variant: the flag is toggled.
SetFulfilled_toggling(wishes, i) == [wishes EXCEPT ![i].fulfilled = ~wishes[i].fulfilled]

\* Faulty variant: every wish of the sequence is flagged, not the one found.
SetFulfilled_all(wishes, i) ==
  [j \in 1..Len(wishes) |-> [wishes[j] EXCEPT !.fulfilled = TRUE]]

\* wish.fulfilled = true; wishes.set(i, wish)
SetFulfilled(wishes, i) == [wishes EXCEPT ![i].fulfilled = TRUE]

Wish(id, text, created_at_ledger, fulfilled) ==
  [id |-> id, text |-> text, created_at_ledger |-> created_at_ledger,
   fulfilled |-> fulfilled]

\* Faulty variant: the event carries the incremented counter, not the id
\* given to the wish.
WishAddedEvent_next_id(user, add) == [kind |-> "WishAdded", user |-> user, id |-> add + 1]

WishAddedEvent(user, add) == [kind |-> "WishAdded", user |-> user, id |-> add]
WishFulfilledEvent(user, wish_id) == [kind |-> "WishFulfilled", user |-> user, id |-> wish_id]

\* The outcome of an invocation, as the caller sees it.
\* `ret` is the value returned.
Call(op, user, res, ret) ==
  [op |-> op, user |-> user, res |-> res, ret |-> ret]

NoCall == Call("none", "none", "none", 0)

\* Faulty variant: add_wish has stored the incremented counter before the
\* precondition that fails, and the failure is reported without a rollback.
Fails_after_counter_write(op, user, res) ==
  /\ call' = Call(op, user, res, 0)
  /\ events' = <<>>
  /\ log' = log
  /\ persistent' = IF op = "add_wish"
                     THEN StorageSet(persistent, NextId(user),
                                     IncrementId(StorageGet(persistent, NextId(user), FIRST_ID)))
                   ELSE persistent
  /\ UNCHANGED <<instance, instance_ttl, ttl, ledger>>

\* An invocation that traps: every write and event is rolled back.
Fails(op, user, res) ==
  /\ call' = Call(op, user, res, 0)
  /\ events' = <<>>
  /\ log' = log
  /\ UNCHANGED <<instance, persistent, instance_ttl, ttl, ledger>>

\* The host runs an invocation only when the contract instance and the
\* persistent entries of its footprint are live (archived entries must be
\* restored first).
Live(keys) ==
  /\ instance_ttl > 0
  /\ \A k \in keys : k \in DOMAIN ttl => ttl[k] > 0

\* ------------------------------------------------------------ Init
\* The contract is deployed and its constructor has not run yet.
Init ==
  /\ instance = <<>>
  /\ persistent = <<>>
  /\ instance_ttl = MinPersistentTTL * LedgerChunk
  /\ ttl = <<>>
  /\ ledger = [timestamp |-> 0, sequence |-> 0]
  /\ events = <<>>
  /\ log = {}
  /\ call = NoCall

\* ------------------------------------------------------------ actions
\* __constructor: run by the host once, when the contract is deployed.
constructor(admin, christmas_deadline, naughty_list) ==
  /\ DOMAIN instance = {}
  /\ Live({})
  /\ instance' = StorageSet(StorageSet(StorageSet(instance,
                    "Admin", admin),
                    "ChristmasDeadline", christmas_deadline),
                    "NaughtyList", naughty_list)
  /\ events' = <<>>
  /\ log' = log
  /\ call' = Call("constructor", admin, "Ok", 0)
  /\ UNCHANGED <<persistent, instance_ttl, ttl, ledger>>

\* Faulty variant: the deadline update also resets the denylist, as a
\* repeated bootstrap would.
set_christmas_deadline_resetting(christmas_deadline, auth) ==
  /\ Live({})
  /\ IF "Admin" \notin DOMAIN instance
       THEN Fails("set_christmas_deadline", "none", "SantaMissing")
     ELSE IF ~require_auth(instance["Admin"], auth)
       THEN Fails("set_christmas_deadline", "none", "AuthError")
     ELSE /\ instance' = StorageSet(StorageSet(instance, "ChristmasDeadline", christmas_deadline),
                                    "NaughtyList", <<>>)
          /\ events' = <<>>
          /\ log' = log
          /\ call' = Call("set_christmas_deadline", "none", "Ok", 0)
          /\ UNCHANGED <<persistent, instance_ttl, ttl, ledger>>

set_christmas_deadline(christmas_deadline, auth) ==
  /\ Live({})
  /\ IF "Admin" \notin DOMAIN instance
       THEN Fails("set_christmas_deadline", "none", "SantaMissing")
     ELSE IF ~require_auth(instance["Admin"], auth)
       THEN Fails("set_christmas_deadline", "none", "AuthError")
     ELSE
       /\ instance' = StorageSet(instance, "ChristmasDeadline", christmas_deadline)
       /\ events' = <<>>
       /\ log' = log
       /\ call' = Call("set_christmas_deadline", "none", "Ok", 0)
       /\ UNCHANGED <<persistent, instance_ttl, ttl, ledger>>

\* Faulty variant: the denylist is consulted before the authorization.
add_wish_denylist_first(user, text, auth) ==
  /\ Live({NextId(user), Wishes(user)})
  /\ IF ~ensure_not_christmas
       THEN Fails("add_wish", user, "TooLateToChange")
     ELSE IF ~check_naughty_list(user)
       THEN Fails("add_wish", user, "YouAreNaughty")
     ELSE IF ~require_auth(user, auth)
       THEN Fails("add_wish", user, "AuthError")
     ELSE LET current_id == StorageGet(persistent, NextId(user), FIRST_ID)
              stored_id == StorageSet(persistent, NextId(user), IncrementId(current_id))
              wishes == StorageGet(stored_id, Wishes(user), <<>>)
              pushed == push_back(wishes, Wish(current_id, text, ledger.sequence, FALSE))
          IN /\ SumLen(persistent, Addresses) < MaxWishes
             /\ persistent' = StorageSet(stored_id, Wishes(user), pushed)
             /\ ttl' = bump_persistent_ttl(TtlOnSet(TtlOnSet(ttl, NextId(user)), Wishes(user)),
                                           Wishes(user))
             /\ instance_ttl' = bump_instance_ttl(instance_ttl)
             /\ events' = <<WishAddedEvent(user, current_id)>>
             /\ log' = log \cup {WishAddedEvent(user, current_id)}
             /\ call' = Call("add_wish", user, "Ok", current_id)
             /\ UNCHANGED <<instance, ledger>>

add_wish(user, text, auth) ==
  /\ Live({NextId(user), Wishes(user)})
  /\ IF ~ensure_not_christmas
       THEN Fails("add_wish", user, "TooLateToChange")
     ELSE IF ~require_auth(user, auth)
       THEN Fails("add_wish", user, "AuthError")
     ELSE IF ~check_naughty_list(user)
       THEN Fails("add_wish", user, "YouAreNaughty")
     ELSE
       LET id_key == NextId(user)
           current_id == StorageGet(persistent, id_key, FIRST_ID)
           next_id == IncrementId(current_id)
           stored_id == StorageSet(persistent, id_key, next_id)
           wish_key == Wishes(user)
           wishes == StorageGet(stored_id, wish_key, <<>>)
           pushed == push_back(wishes, Wish(current_id, text, ledger.sequence, FALSE))
           stored == StorageSet(stored_id, wish_key, pushed)
       IN /\ SumLen(persistent, Addresses) < MaxWishes
          /\ persistent' = stored
          /\ ttl' = bump_persistent_ttl(TtlOnSet(TtlOnSet(ttl, id_key), wish_key), wish_key)
          /\ instance_ttl' = bump_instance_ttl(instance_ttl)
          /\ events' = <<WishAddedEvent(user, current_id)>>
          /\ log' = log \cup {WishAddedEvent(user, current_id)}
          /\ call' = Call("add_wish", user, "Ok", current_id)
          /\ UNCHANGED <<instance, ledger>>

\* Faulty variant: a loop that falls back on the last wish when no id matches.
FindFrom_fallback(wishes, wish_id, i) ==
  IF \E j \in i..Len(wishes) : wishes[j].id = wish_id
    THEN CHOOSE j \in i..Len(wishes) :
           /\ wishes[j].id = wish_id
           /\ \A k \in i..(j - 1) : wishes[k].id # wish_id
    ELSE Len(wishes)

\* The loop of mark_fulfilled: the index of the first wish whose id is
\* wish_id (0 when the loop ends with found = false).
RECURSIVE FindFrom(_, _, _)
FindFrom(wishes, wish_id, i) ==
  IF i > Len(wishes) THEN 0
  ELSE IF wishes[i].id = wish_id THEN i
  ELSE FindFrom(wishes, wish_id, i + 1)

mark_fulfilled(user, wish_id, auth) ==
  /\ Live({Wishes(user)})
  /\ IF "Admin" \notin DOMAIN instance
       THEN Fails("mark_fulfilled", user, "SantaMissing")
     ELSE IF ~require_auth(instance["Admin"], auth)
       THEN Fails("mark_fulfilled", user, "AuthError")
     ELSE
       LET wish_key == Wishes(user)
           wishes == StorageGet(persistent, wish_key, <<>>)
           i == FindFrom(wishes, wish_id, 1)
           found == i # 0
       IN IF ~found
            THEN Fails("mark_fulfilled", user, "WishNotFound")
          ELSE
            /\ persistent' = StorageSet(persistent, wish_key, SetFulfilled(wishes, i))
            /\ ttl' = bump_persistent_ttl(TtlOnSet(ttl, wish_key), wish_key)
            /\ events' = <<WishFulfilledEvent(user, wish_id)>>
            /\ log' = log \cup {WishFulfilledEvent(user, wish_id)}
            /\ call' = Call("mark_fulfilled", user, "Ok", 0)
            /\ UNCHANGED <<instance, instance_ttl, ledger>>

get_list(user) ==
  /\ Live({Wishes(user)})
  /\ LET key == Wishes(user)
         wishes == StorageGet(persistent, key, <<>>)
     IN IF ~bump_persistent_ttl_ok(persistent, key)
          THEN Fails("get_list", user, "MissingValue")
        ELSE
          /\ ttl' = bump_persistent_ttl(ttl, key)
          /\ events' = <<>>
          /\ log' = log
          /\ call' = Call("get_list", user, "Ok", wishes)
          /\ UNCHANGED <<instance, persistent, instance_ttl, ledger>>

\* ------------------------------------------------------------ the host ledger
Decay(remaining) == IF remaining > LedgerChunk THEN remaining - LedgerChunk ELSE 0

\* LedgerChunk ledgers close: the sequence grows, the timestamp grows by one
\* unit of time, every entry's remaining lifetime shrinks.
AdvanceLedger ==
  /\ ledger.sequence < MaxLedgers * LedgerChunk
  /\ ledger' = [timestamp |-> ledger.timestamp + 1,
                sequence |-> ledger.sequence + LedgerChunk]
  /\ instance_ttl' = Decay(instance_ttl)
  /\ ttl' = [k \in DOMAIN ttl |-> Decay(ttl[k])]
  /\ events' = <<>>
  /\ log' = log
  /\ call' = NoCall
  /\ UNCHANGED <<instance, persistent>>

\* RestoreFootprint: anyone may restore archived entries; their values are kept.
Restore ==
  /\ instance_ttl = 0 \/ \E k \in DOMAIN ttl : ttl[k] = 0
  /\ instance_ttl' = IF instance_ttl = 0 THEN MinPersistentTTL * LedgerChunk ELSE instance_ttl
  /\ ttl' = [k \in DOMAIN ttl |-> IF ttl[k] = 0 THEN MinPersistentTTL * LedgerChunk ELSE ttl[k]]
  /\ events' = <<>>
  /\ log' = log
  /\ call' = NoCall
  /\ UNCHANGED <<instance, persistent, ledger>>

Next ==
  \/ \E admin \in Addresses, d \in Deadlines, n \in NaughtyLists : constructor(admin, d, n)
  \/ \E d \in Deadlines, auth \in Authorizations : set_christmas_deadline(d, auth)
  \/ \E user \in Addresses, text \in Texts, auth \in Authorizations : add_wish(user, text, auth)
  \/ \E user \in Addresses, id \in WishIds, auth \in Authorizations : mark_fulfilled(user, id, auth)
  \/ \E user \in Addresses : get_list(user)
  \/ AdvanceLedger
  \/ Restore

Spec == Init /\ [][Next]_vars

\* ------------------------------------------------------------ observations
\* What get_list(u) reads: the stored sequence, empty when there is none.
WishesOf(u) == StorageGet(persistent, Wishes(u), <<>>)
\* The id the next add_wish(u, _) allocates.
NextIdOf(u) == StorageGet(persistent, NextId(u), FIRST_ID)
AdminAuthorized(auth) == "Admin" \in DOMAIN instance /\ instance["Admin"] \in auth
StorageUnchanged == persistent' = persistent /\ instance' = instance

\* The step is an invocation op(u, ..): every invocation records itself in call.
Invokes(op, u) == call'.op = op /\ call'.user = u

\* The step writes persistent storage; the formulas about stored wishes hold
\* trivially of every other step.
Writes == persistent' # persistent

\* "If the step is the invocation A, then Post": A, an action of the model
\* applied to one input, is evaluated only on the steps where Post fails.
Ensures(A, Post) == Post \/ ~A

\* ------------------------------------------------------------ C1
\* C1: the k-th successful add_wish(u, _) returns k. A successful add_wish(u, _)
\* returns one more than the number of wishes u has stored and stores exactly
\* one more wish, carrying the returned id; no other step changes the number
\* of u's wishes; the stored ids are 1..Len in order, so none appears twice.
C1_SequentialIds ==
  [][\A u \in Addresses :
       LET old == WishesOf(u)
           new == WishesOf(u)'
       IN (Writes \/ (Invokes("add_wish", u) /\ call'.res = "Ok")) =>
          /\ (Invokes("add_wish", u) /\ call'.res = "Ok")
               => /\ call'.ret = Len(old) + 1
                  /\ Len(new) = Len(old) + 1
                  /\ new[Len(new)].id = call'.ret
          /\ ~(Invokes("add_wish", u) /\ call'.res = "Ok")
               => Len(new) = Len(old)
          /\ \A i \in 1..Len(new) : new[i].id = i
    ]_vars

\* A second successful addition returned 2 after a ledger closed in between.
C1_Witness ==
  /\ call.op = "add_wish" /\ call.res = "Ok" /\ call.ret = 2
  /\ WishesOf(call.user)[1].created_at_ledger < WishesOf(call.user)[2].created_at_ledger

\* ------------------------------------------------------------ C2
\* C2: add_wish at a ledger time >= the deadline fails with TooLateToChange
\* whoever authorized it and whether or not the user is denylisted, and
\* leaves the user's counter and wish sequence as they were.
C2_DeadlineRejects ==
  [][(call'.op = "add_wish" /\ ledger.timestamp >= ChristmasDeadline) =>
       \A text \in Texts, auth \in Authorizations :
         Ensures(add_wish(call'.user, text, auth),
                 call'.res = "TooLateToChange" /\ persistent' = persistent)
    ]_vars

\* A denylisted user with a stored deadline was rejected for the deadline.
C2_Witness ==
  /\ call.op = "add_wish" /\ call.res = "TooLateToChange"
  /\ "ChristmasDeadline" \in DOMAIN instance
  /\ Contains(instance["NaughtyList"], call.user)
  /\ ledger.timestamp >= instance["ChristmasDeadline"]

\* ------------------------------------------------------------ C3
\* C3: add_wish before the deadline, authorized by the user, for a user in
\* the stored denylist fails with YouAreNaughty before any storage write:
\* storage is unchanged and no event is published.
C3_DenylistRejects ==
  [][(/\ call'.op = "add_wish"
      /\ ledger.timestamp < ChristmasDeadline
      /\ "NaughtyList" \in DOMAIN instance
      /\ Contains(instance["NaughtyList"], call'.user)) =>
       \A text \in Texts, auth \in Authorizations :
         call'.user \in auth
           => Ensures(add_wish(call'.user, text, auth),
                      call'.res = "YouAreNaughty" /\ StorageUnchanged /\ events' = <<>>)
    ]_vars

C3_Witness ==
  /\ call.op = "add_wish" /\ call.res = "YouAreNaughty"
  /\ Contains(instance["NaughtyList"], call.user)
  /\ ledger.timestamp < instance["ChristmasDeadline"]

\* ------------------------------------------------------------ C4
\* C4: mark_fulfilled(u, id) authorized by the stored admin, when no wish of
\* u's stored sequence has that id (or u has no stored sequence), fails with
\* WishNotFound, leaves persistent storage as it was and publishes no event.
C4_WishNotFound ==
  [][call'.op = "mark_fulfilled" =>
       \/ call'.res = "WishNotFound" /\ persistent' = persistent /\ events' = <<>>
       \/ \A id \in WishIds, auth \in Authorizations :
            (/\ AdminAuthorized(auth)
             /\ \A i \in 1..Len(WishesOf(call'.user)) : WishesOf(call'.user)[i].id # id)
              => ~mark_fulfilled(call'.user, id, auth)
    ]_vars

\* WishNotFound for a user with stored wishes, while another has no sequence.
C4_Witness ==
  /\ call.op = "mark_fulfilled" /\ call.res = "WishNotFound"
  /\ Len(WishesOf(call.user)) > 0
  /\ \E v \in Addresses : Wishes(v) \notin DOMAIN persistent

\* ------------------------------------------------------------ C5
\* C5: a wish that is fulfilled stays fulfilled: after every step the wish
\* with the same (user, id) is still stored and still has fulfilled = true.
C5_FulfilledIsPermanent ==
  [][Writes => \A u \in Addresses :
       LET old == WishesOf(u)
           new == WishesOf(u)'
       IN \A i \in 1..Len(old) :
            old[i].fulfilled
              => /\ \E j \in 1..Len(new) : new[j].id = old[i].id /\ new[j].fulfilled
                 /\ \A j \in 1..Len(new) : new[j].id = old[i].id => new[j].fulfilled
    ]_vars

\* add_wish succeeded for a user whose first wish was fulfilled before.
C5_Witness ==
  /\ call.op = "add_wish" /\ call.res = "Ok" /\ call.ret = 2
  /\ WishesOf(call.user)[1].fulfilled

\* ------------------------------------------------------------ C6
\* C6: each user's stored sequence is append-only: across every step the old
\* sequence is a prefix of the new one up to the fulfilled flags (no wish is
\* removed or reordered; id, text and created_at_ledger never change).
C6_AppendOnly ==
  [][Writes => \A u \in Addresses :
       LET old == WishesOf(u)
           new == WishesOf(u)'
       IN /\ Len(new) >= Len(old)
          /\ Wishes(u) \in DOMAIN persistent => Wishes(u) \in DOMAIN persistent'
          /\ \A i \in 1..Len(old) :
               /\ new[i].id = old[i].id
               /\ new[i].text = old[i].text
               /\ new[i].created_at_ledger = old[i].created_at_ledger
    ]_vars

\* Two wishes added in different ledgers; mark_fulfilled set the flag of the
\* second one and left the rest in place.
C6_Witness ==
  /\ call.op = "mark_fulfilled" /\ call.res = "Ok"
  /\ Len(WishesOf(call.user)) = 2
  /\ ~WishesOf(call.user)[1].fulfilled /\ WishesOf(call.user)[2].fulfilled
  /\ WishesOf(call.user)[1].created_at_ledger < WishesOf(call.user)[2].created_at_ledger

\* ------------------------------------------------------------ C7
\* C7: get_list(u) for a user with no Wishes(u) entry returns the empty
\* sequence and never fails, the lifetime renewal of Wishes(u) included.
C7_GetListNeverFails ==
  (call.op = "get_list" /\ Wishes(call.user) \notin DOMAIN persistent)
    => (call.res = "Ok" /\ call.ret = <<>>)

\* ------------------------------------------------------------ C8
\* C8: every state change is authorized by the right principal. A step that
\* changes storage is no add_wish(u, _) that lacks u's authorization and no
\* mark_fulfilled or set_christmas_deadline that lacks the stored admin's
\* authorization (such calls change no storage); u's counter
\* and sequence grow only in an add_wish(u, _); a fulfilled flag of u changes
\* only in a mark_fulfilled(u, _); once the constructor has stored the
\* configuration, it changes only in a set_christmas_deadline.
C8_Authorized ==
  [][~StorageUnchanged =>
     /\ call'.op = "add_wish" =>
          \A text \in Texts, auth \in Authorizations :
            call'.user \notin auth => ~add_wish(call'.user, text, auth)
     /\ call'.op = "mark_fulfilled" =>
          \A id \in WishIds, auth \in Authorizations :
            ~AdminAuthorized(auth) => ~mark_fulfilled(call'.user, id, auth)
     /\ call'.op = "set_christmas_deadline" =>
          \A d \in Deadlines, auth \in Authorizations :
            ~AdminAuthorized(auth) => ~set_christmas_deadline(d, auth)
     /\ \A u \in Addresses :
          LET old == WishesOf(u)
              new == WishesOf(u)'
          IN /\ (Len(new) # Len(old) \/ NextIdOf(u)' # NextIdOf(u))
                  => Invokes("add_wish", u)
             /\ (\E i \in 1..Len(old) : new[i].fulfilled # old[i].fulfilled)
                  => Invokes("mark_fulfilled", u)
     /\ instance' # instance
            => \/ DOMAIN instance = {} /\ call'.op = "constructor"
               \/ DOMAIN instance # {} /\ call'.op = "set_christmas_deadline"
    ]_vars

\* mark_fulfilled without the admin's authorization was refused although
\* the wish exists and is unfulfilled.
C8_Witness ==
  /\ call.op = "mark_fulfilled" /\ call.res = "AuthError"
  /\ \E i \in 1..Len(WishesOf(call.user)) : ~WishesOf(call.user)[i].fulfilled
  /\ instance["Admin"] # call.user

Frozen ==
  /\ "ChristmasDeadline" \in DOMAIN instance
  /\ ledger.timestamp >= instance["ChristmasDeadline"]

\* C10 as stated: once frozen, frozen in every later state.
C10_FrozenForever == [][Frozen => Frozen']_vars

\* C10 amended: the frozen phase lasts for as long as the deadline is not
\* moved: every step other than a successful set_christmas_deadline keeps the
\* system frozen, and every add_wish made while frozen fails with
\* TooLateToChange; a set_christmas_deadline(d) authorized by the admin keeps
\* it frozen exactly when d is not later than the ledger time.
C10_FrozenUntilDeadlineMoved ==
  [][Frozen =>
       /\ ~(call'.op = "set_christmas_deadline" /\ call'.res = "Ok") => Frozen'
       /\ (call'.op = "set_christmas_deadline" /\ call'.res = "Ok") =>
            \A d \in Deadlines, auth \in Authorizations :
              Ensures(set_christmas_deadline(d, auth),
                      AdminAuthorized(auth) /\ (Frozen' <=> ledger.timestamp >= d))
       /\ call'.op = "add_wish"
            => (call'.res = "TooLateToChange" /\ persistent' = persistent)
    ]_vars

\* add_wish was refused in the frozen phase to a user who is not denylisted
\* and had added a wish before the deadline.
C10_Witness ==
  /\ Frozen
  /\ call.op = "add_wish" /\ call.res = "TooLateToChange"
  /\ ~Contains(instance["NaughtyList"], call.user)
  /\ Len(WishesOf(call.user)) > 0

\* ------------------------------------------------------------ C11
\* The error outcomes of the entry points.
Errors == {"TooLateToChange", "YouAreNaughty", "WishNotFound", "AuthError",
           "SantaMissing", "MissingValue"}

Renewed(remaining) == remaining > TTL_THRESHOLD

\* C12 as stated: every successful operation renews the lifetime of every
\* entry it reads or writes: add_wish(u, _) renews Wishes(u), NextId(u) and
\* the instance storage; mark_fulfilled(u, _) and get_list(u) renew Wishes(u).
C12_RenewsEveryEntry ==
  [][call'.res = "Ok" =>
       /\ call'.op = "add_wish" =>
            /\ Renewed(ttl'[Wishes(call'.user)])
            /\ Renewed(ttl'[NextId(call'.user)])
            /\ Renewed(instance_ttl')
       /\ call'.op \in {"mark_fulfilled", "get_list"} =>
            Renewed(ttl'[Wishes(call'.user)])
    ]_vars

\* ------------------------------------------------------------ C13
\* The user is in the stored denylist (nobody is when none is stored).
Denylisted(user) == Contains(StorageGet(instance, "NaughtyList", <<>>), user)

\* C13: add_wish reports the first failing precondition in the order
\* deadline, authorization, denylist: TooLateToChange at or after the
\* deadline whoever calls; before the deadline AuthError when the user has not
\* authorized the call, denylisted or not; YouAreNaughty only before the
\* deadline with the user's authorization; Ok when all three hold.
C13_ErrorPrecedence ==
  [][call'.op = "add_wish" =>
       \A text \in Texts, auth \in Authorizations :
         Ensures(add_wish(call'.user, text, auth),
                 call'.res = (IF ledger.timestamp >= ChristmasDeadline
                                THEN "TooLateToChange"
                              ELSE IF call'.user \notin auth THEN "AuthError"
                              ELSE IF Denylisted(call'.user) THEN "YouAreNaughty"
                              ELSE "Ok"))
    ]_vars

\* Before the deadline an unauthorized add_wish for a denylisted user failed
\* on the authorization.
C13_Witness ==
  /\ call.op = "add_wish" /\ call.res = "AuthError"
  /\ Denylisted(call.user)
  /\ ledger.timestamp < ChristmasDeadline

\* ------------------------------------------------------------ C14
\* C14: a successful mark_fulfilled(u, id) changes one thing in storage: the
\* wish of u with that id, which exists, has fulfilled = TRUE afterwards;
\* every other wish of u, u's counter, every other entry and the
\* configuration are unchanged. It is idempotent on storage: in the state it
\* leaves, the entry is live, the admin stored and the id found, and a second
\* mark_fulfilled(u, id) authorized by the admin succeeds and leaves storage
\* as it is.
C14_MarkFulfilledFrame ==
  [][(call'.op = "mark_fulfilled" /\ call'.res = "Ok") =>
       LET u == call'.user
           old == WishesOf(u)
           new == StorageGet(persistent', Wishes(u), <<>>)
       IN /\ \A id \in WishIds, auth \in Authorizations :
               Ensures(mark_fulfilled(u, id, auth),
                       /\ \E i \in 1..Len(old) : old[i].id = id
                       /\ Len(new) = Len(old)
                       /\ \A i \in 1..Len(old) :
                            new[i] = IF old[i].id = id
                                       THEN [old[i] EXCEPT !.fulfilled = TRUE]
                                     ELSE old[i]
                       /\ events' = <<WishFulfilledEvent(u, id)>>)
          /\ instance' = instance
          /\ DOMAIN persistent' = DOMAIN persistent
          /\ \A k \in DOMAIN persistent : k # Wishes(u) => persistent'[k] = persistent[k]
          /\ instance_ttl' > 0 /\ ttl'[Wishes(u)] > 0
          /\ "Admin" \in DOMAIN instance'
          /\ FindFrom(new, events'[1].id, 1) # 0
          /\ (call.op = "mark_fulfilled" /\ call.res = "Ok" /\ call.user = u
                /\ events = events')
               => StorageUnchanged
    ]_vars

\* The admin fulfilled the second of two wishes of a user whose first wish
\* was already fulfilled, and the user's counter stands at 3.
C14_Witness ==
  /\ call.op = "mark_fulfilled" /\ call.res = "Ok"
  /\ events = <<WishFulfilledEvent(call.user, 2)>>
  /\ Len(WishesOf(call.user)) = 2
  /\ WishesOf(call.user)[1].fulfilled /\ WishesOf(call.user)[2].fulfilled
  /\ NextIdOf(call.user) = 3

\* ------------------------------------------------------------ C15
\* C15 as stated: in the frozen phase a mark_fulfilled(u, id) authorized by the
\* admin succeeds for every stored wish (u, id), whether or not u is
\* denylisted, and get_list(u) returns u's sequence.
C15_NotGatedByDeadline ==
  [][Frozen =>
       /\ call'.op = "mark_fulfilled" =>
            \A id \in WishIds, auth \in Authorizations :
              Ensures(mark_fulfilled(call'.user, id, auth),
                      (AdminAuthorized(auth)
                         /\ \E i \in 1..Len(WishesOf(call'.user)) :
                              WishesOf(call'.user)[i].id = id)
                        => call'.res = "Ok")
       /\ call'.op = "get_list" =>
            (call'.res = "Ok" /\ call'.ret = WishesOf(call'.user))
    ]_vars

\* ------------------------------------------------------------ C16
\* C16: a successful set_christmas_deadline(d) is authorized by the stored
\* admin and overwrites the stored deadline with d and nothing else: admin,
\* denylist and every user's sequence and counter are unchanged and no event
\* is emitted. Once the constructor has stored the configuration, no step
\* changes the stored admin or the stored denylist.
C16_DeadlineOnly ==
  [][/\ (call'.op = "set_christmas_deadline" /\ call'.res = "Ok") =>
          \A d \in Deadlines, auth \in Authorizations :
            Ensures(set_christmas_deadline(d, auth),
                    /\ AdminAuthorized(auth)
                    /\ instance' = [instance EXCEPT !["ChristmasDeadline"] = d]
                    /\ persistent' = persistent
                    /\ events' = <<>>)
     /\ "Admin" \in DOMAIN instance =>
          /\ DOMAIN instance' = DOMAIN instance
          /\ instance'["Admin"] = instance["Admin"]
          /\ instance'["NaughtyList"] = instance["NaughtyList"]
    ]_vars

\* The admin has set the deadline on a contract with a non-empty denylist and
\* a stored wish.
C16_Witness ==
  /\ call.op = "set_christmas_deadline" /\ call.res = "Ok"
  /\ instance["NaughtyList"] # <<>>
  /\ \E u \in Addresses : Len(WishesOf(u)) > 0

\* ------------------------------------------------------------ C17
\* C17 as stated: once the constructor has stored a denylist containing U,
\* get_list(U) returns the empty sequence.
C17_DenylistedListEmpty ==
  ("Admin" \in DOMAIN instance /\ call.op = "get_list" /\ Denylisted(call.user))
    => (call.res = "Ok" /\ call.ret = <<>>)

\* ------------------------------------------------------------ C18
\* C18: in every reachable state the stored counter and the stored sequence of
\* every user agree: NextId(u), 1 when absent, is Len(Wishes(u)) + 1, with
\* Wishes(u) empty when absent, and the wish at position i has id i; the two
\* entries of a user are stored together or not at all.
C18_CounterMatchesSequence ==
  \A u \in Addresses :
    /\ NextIdOf(u) = Len(WishesOf(u)) + 1
    /\ \A i \in 1..Len(WishesOf(u)) : WishesOf(u)[i].id = i
    /\ (NextId(u) \in DOMAIN persistent) <=> (Wishes(u) \in DOMAIN persistent)

\* Two users have a wish each; the counter entry of one of them has outlived
\* its lifetime while the sequence entry is live.
C18_Witness ==
  /\ \A u \in Addresses : NextIdOf(u) = 2 /\ Len(WishesOf(u)) = 1
  /\ \E u \in Addresses : ttl[NextId(u)] = 0 /\ ttl[Wishes(u)] > 0

\* ------------------------------------------------------------ C19
\* What a successful add_wish(user, text) at ledger `sequence` stores.
add_wish_effect(store, user, text, sequence) ==
  LET current_id == StorageGet(store, NextId(user), FIRST_ID)
      stored_id == StorageSet(store, NextId(user), IncrementId(current_id))
      wishes == StorageGet(stored_id, Wishes(user), <<>>)
  IN StorageSet(stored_id, Wishes(user),
                push_back(wishes, Wish(current_id, text, sequence, FALSE)))

\* What mark_fulfilled(user, wish_id) stores; nothing when the id is not found.
mark_fulfilled_effect(store, user, wish_id) ==
  LET wishes == StorageGet(store, Wishes(user), <<>>)
      i == FindFrom(wishes, wish_id, 1)
  IN IF i = 0 THEN store ELSE StorageSet(store, Wishes(user), SetFulfilled(wishes, i))

\* The storage without the ledger sequence recorded in the wishes.
WithoutLedger(store) ==
  [k \in DOMAIN store |->
     IF k[1] = "Wishes"
       THEN [i \in 1..Len(store[k]) |->
               [id |-> store[k][i].id, text |-> store[k][i].text,
                fulfilled |-> store[k][i].fulfilled]]
     ELSE store[k]]

\* The entries of user v in a store: sequence and counter, absent or not.
EntriesOf(store, v) ==
  [k \in {Wishes(v), NextId(v)} \cap DOMAIN store |-> store[k]]

\* The successful operations on user u in the current state: an add_wish, or
\* a mark_fulfilled of a wish u has.
OpsOn(u) ==
  {[kind |-> "add_wish", user |-> u, arg |-> t] : t \in Texts}
    \cup {[kind |-> "mark_fulfilled", user |-> u, arg |-> WishesOf(u)[i].id] :
            i \in 1..Len(WishesOf(u))}

\* What the operation stores when it succeeds at ledger `sequence`.
Apply(store, op, sequence) ==
  IF op.kind = "add_wish"
    THEN add_wish_effect(store, op.user, op.arg, sequence)
  ELSE mark_fulfilled_effect(store, op.user, op.arg)

\* C19: a successful add_wish(u, _) or mark_fulfilled(u, _) stores what its
\* effect on u's entries says and leaves the entries of every other user v,
\* and their lifetimes, as they were; and in every reachable state two
\* successful operations on different users commute: applied in either order,
\* one ledger step apart, they leave the same sequences and counters, up to
\* the ledger sequence recorded in the wishes.
C19_UsersAreIndependent ==
  /\ [][(call'.op \in {"add_wish", "mark_fulfilled"} /\ call'.res = "Ok") =>
          /\ \A v \in Addresses \ {call'.user} :
               /\ EntriesOf(persistent', v) = EntriesOf(persistent, v)
               /\ EntriesOf(ttl', v) = EntriesOf(ttl, v)
          /\ \E op \in OpsOn(call'.user) :
               /\ op.kind = call'.op
               /\ persistent' = Apply(persistent, op, ledger.sequence)
       ]_vars
  /\ [](\A pair \in {S \in SUBSET Addresses : Cardinality(S) = 2} :
          LET u == CHOOSE x \in pair : TRUE
              v == CHOOSE y \in pair \ {u} : TRUE
              later == ledger.sequence + LedgerChunk
          IN \A a \in OpsOn(u), b \in OpsOn(v) :
               WithoutLedger(Apply(Apply(persistent, a, ledger.sequence), b, later))
                 = WithoutLedger(Apply(Apply(persistent, b, ledger.sequence), a, later)))

\* The admin fulfilled a wish of one user while another user has a wish of
\* their own, still unfulfilled.
C19_Witness ==
  /\ call.op = "mark_fulfilled" /\ call.res = "Ok"
  /\ WishesOf(call.user)[1].fulfilled
  /\ \E v \in Addresses \ {call.user} :
       Len(WishesOf(v)) = 1 /\ ~WishesOf(v)[1].fulfilled

\* ------------------------------------------------------------ C20
\* The (user, id) pairs carried by the events of one kind published so far.
Published(kind) == {<<e.user, e.id>> : e \in {x \in log : x.kind = kind}}

\* The (user, id) pairs of the stored wishes, and of the fulfilled ones.
StoredWishes ==
  {<<u, WishesOf(u)[j].id>> : <<u, j>> \in
     {q \in Addresses \X (1..MaxWishes) : q[2] <= Len(WishesOf(q[1]))}}
FulfilledWishes ==
  {p \in StoredWishes :
     \E j \in 1..Len(WishesOf(p[1])) :
       WishesOf(p[1])[j].id = p[2] /\ WishesOf(p[1])[j].fulfilled}

\* C20: the event log mirrors the state. A successful add_wish(u, _) publishes
\* exactly one event, WishAdded(u, returned id); a successful
\* mark_fulfilled(u, id) exactly one, WishFulfilled(u, id); no other step
\* publishes anything. In every reachable state the WishAdded pairs published
\* so far are the (u, id) of the stored wishes, and a stored wish is fulfilled
\* exactly when a WishFulfilled(u, id) has been published.
C20_EventsMirrorState ==
  /\ [](/\ Published("WishAdded") = StoredWishes
        /\ Published("WishFulfilled") = FulfilledWishes)
  /\ [][/\ (call'.op = "add_wish" /\ call'.res = "Ok")
              => events' = <<WishAddedEvent(call'.user, call'.ret)>>
        /\ (call'.op = "mark_fulfilled" /\ call'.res = "Ok") =>
              \A id \in WishIds, auth \in Authorizations :
                Ensures(mark_fulfilled(call'.user, id, auth),
                        events' = <<WishFulfilledEvent(call'.user, id)>>)
        /\ ~(call'.op \in {"add_wish", "mark_fulfilled"} /\ call'.res = "Ok")
              => events' = <<>>
        /\ log' = log \cup {events'[i] : i \in 1..Len(events')}
       ]_vars

\* A user has two wishes, both announced, of which the second alone is
\* fulfilled and announced as such; the last invocation read the list.
C20_Witness ==
  /\ call.op = "get_list" /\ call.res = "Ok" /\ Len(call.ret) = 2
  /\ Published("WishAdded") = {<<call.user, 1>>, <<call.user, 2>>}
  /\ Published("WishFulfilled") = {<<call.user, 2>>}
  /\ ~call.ret[1].fulfilled /\ call.ret[2].fulfilled

====
